---- MODULE Spec2Model ----
(***************************************************************************)
(* State-machine model of device-coap-c (src/src/c/coap-server.c): the     *)
(* CoAP request handler data_handler with its path router parse_path and   *)
(* typed payload decoders, and the process lifecycle main / coap_init /    *)
(* run_server with the signal-driven stop flag.                            *)
(*                                                                         *)
(* Byte strings (URI paths, payloads, names) are sequences of one-byte     *)
(* strings; NUL stands for the zero byte.  Numbers that do not fit a       *)
(* 32-bit integer are kept as digit sequences.                             *)
(***************************************************************************)
EXTENDS Integers, Sequences, FiniteSets, TLC

\* ------------------------------------------------------------------ bytes

NUL == "NUL"
NoSeg == <<>>                 \* a NULL char pointer (strtok never yields an empty token)

DigitChars == <<"0", "1", "2", "3", "4", "5", "6", "7", "8", "9">>

IsDigit(c) == \E i \in 1..10 : DigitChars[i] = c

DigitVal(c) == (CHOOSE i \in 1..10 : DigitChars[i] = c) - 1

IsSpace(c) == c \in {" ", "\t", "\n", "\r", "\f"}

\* Number of leading elements of s that satisfy the class test.
RECURSIVE SpanDigits(_)
SpanDigits(s) ==
  IF s = <<>> \/ ~IsDigit(Head(s)) THEN 0 ELSE 1 + SpanDigits(Tail(s))

RECURSIVE SpanSpace(_)
SpanSpace(s) ==
  IF s = <<>> \/ ~IsSpace(Head(s)) THEN 0 ELSE 1 + SpanSpace(Tail(s))

Drop(s, n) == SubSeq(s, n + 1, Len(s))

Take(s, n) == SubSeq(s, 1, n)

\* Digit sequences as numbers: leading zeros stripped, <<>> is zero.
RECURSIVE StripZeros(_)
StripZeros(ds) ==
  IF ds # <<>> /\ Head(ds) = "0" THEN StripZeros(Tail(ds)) ELSE ds

RECURSIVE StripTrailingZeros(_)
StripTrailingZeros(ds) ==
  IF ds # <<>> /\ ds[Len(ds)] = "0" THEN StripTrailingZeros(Take(ds, Len(ds) - 1)) ELSE ds

\* Lexicographic a <= b for digit sequences of equal length.
RECURSIVE LexLeq(_, _)
LexLeq(a, b) ==
  IF a = <<>> \/ b = <<>> THEN a = <<>>
  ELSE IF Head(a) # Head(b) THEN DigitVal(Head(a)) < DigitVal(Head(b))
  ELSE LexLeq(Tail(a), Tail(b))

\* a <= b for stripped digit sequences read as naturals.
NatLeq(a, b) ==
  \/ Len(a) < Len(b)
  \/ Len(a) = Len(b) /\ LexLeq(a, b)

\* Value of a short stripped digit sequence (at most 5 digits).
RECURSIVE SmallNat(_)
SmallNat(ds) ==
  IF ds = <<>> THEN 0 ELSE 10 * SmallNat(Take(ds, Len(ds) - 1)) + DigitVal(ds[Len(ds)])

\* ------------------------------------------------------------ constants

INT32_STR_MAXLEN == 11
FLOAT64_STR_MAXLEN == 24
RESOURCE_SEG1 == <<"a", "1", "r">>
MSG_PAYLOAD_INVALID == "payload not valid"
NoBody == ""
CONTENT_FORMAT_UNDEFINED == 65535
COAP_MEDIATYPE_TEXT_PLAIN == 0
COAP_MEDIATYPE_APPLICATION_JSON == 50
COAP_MEDIATYPE_APPLICATION_LINK_FORMAT == 40

INT32_MAX_DIGITS == <<"2", "1", "4", "7", "4", "8", "3", "6", "4", "7">>
INT32_MIN_DIGITS == <<"2", "1", "4", "7", "4", "8", "3", "6", "4", "8">>

\* ------------------------------------------------------------- decoders

NullData == [kind |-> "null", neg |-> FALSE, digits |-> <<>>, exp |-> 0, str |-> <<>>]

\* The C string held in buf: the bytes before the first NUL.
RECURSIVE CStr(_)
CStr(buf) ==
  IF buf = <<>> \/ Head(buf) = NUL THEN <<>> ELSE <<Head(buf)>> \o CStr(Tail(buf))

\* strtol (s, &endptr, 10) on a C string: white space, an optional sign, digits.
\* end is the offset of endptr from s (0 when no digit was converted);
\* noconv tells that no conversion was performed.  With at most
\* INT32_STR_MAXLEN characters a 64-bit long never overflows.
strtol(s) ==
  LET ws   == SpanSpace(s)
      a    == Drop(s, ws)
      sg   == IF a # <<>> /\ Head(a) \in {"+", "-"} THEN 1 ELSE 0
      b    == Drop(a, sg)
      nd   == SpanDigits(b)
      mag  == StripZeros(Take(b, nd))
  IN  IF nd = 0
      THEN [end |-> 0, neg |-> FALSE, digits |-> <<>>, noconv |-> TRUE]
      ELSE [end |-> ws + sg + nd,
            neg |-> (sg = 1 /\ Head(a) = "-" /\ mag # <<>>),
            digits |-> mag, noconv |-> FALSE]

\* Lines 98 and 125: the length guard of the numeric decoders.
TooLong_OffByOne(len, maxlen) == len > maxlen + 1

TooLong(len, maxlen) == len > maxlen

\* Lines 104-106 and 131-133: data_str[maxlen+1]; data_str[len] = 0;
\* memcpy (data_str, data, len).  size is the size of data_str, writes the
\* offsets of data_str written and reads the offsets of data read; nothing is
\* touched when the guard returns first.
CopyToBuffer(data, maxlen) ==
  IF TooLong(Len(data), maxlen)
  THEN [size |-> maxlen + 1, writes |-> {}, reads |-> {}]
  ELSE [size |-> maxlen + 1, writes |-> {Len(data)} \cup 0..(Len(data) - 1),
        reads |-> 0..(Len(data) - 1)]

\* read_data_int32 (data, len) with len = Len(data).  einval: whether the C
\* library sets errno = EINVAL when strtol converts nothing (musl does,
\* glibc does not).
Int32Result_NoUpperBound(data_str, r, einval) ==
  IF \/ r.noconv /\ einval
     \/ data_str[r.end + 1] # NUL
     \/ r.neg /\ ~NatLeq(r.digits, INT32_MIN_DIGITS)
  THEN NullData
  ELSE [kind |-> "i32", neg |-> r.neg, digits |-> r.digits, exp |-> 0, str |-> <<>>]

Int32Result(data_str, r, einval) ==
  IF \/ r.noconv /\ einval                          \* errno
     \/ data_str[r.end + 1] # NUL                   \* *endptr != '\0'
     \/ r.neg /\ ~NatLeq(r.digits, INT32_MIN_DIGITS) \* int_val < INT32_MIN
     \/ ~r.neg /\ ~NatLeq(r.digits, INT32_MAX_DIGITS) \* int_val > INT32_MAX
  THEN NullData
  ELSE [kind |-> "i32", neg |-> r.neg, digits |-> r.digits, exp |-> 0, str |-> <<>>]

read_data_int32(data, einval) ==
  IF TooLong(Len(data), INT32_STR_MAXLEN) THEN NullData
  ELSE Int32Result(data \o <<NUL>>, strtol(CStr(data \o <<NUL>>)), einval)

\* Decimal floating literal of strtod: digits [. digits] [(e|E) [sign] digits].
\* Hexadecimal, "inf" and "nan" forms are outside the payload alphabet used.
\* The value is kept as sign, mantissa digits (no leading or trailing zero)
\* and a decimal exponent; order is the position of the leading digit.
DBL_MAX_LEAD == <<"1", "7", "9", "7", "6", "9", "3", "1", "3", "4", "8", "6", "2", "3", "1", "5", "8">>
DBL_MIN_LEAD == <<"2", "2", "2", "5", "0", "7", "3", "8", "5", "8", "5", "0", "7", "2", "0", "1", "4">>
DBL_MAX_10_EXP == 308
DBL_MIN_10_EXP == -307

RECURSIVE PadZeros(_, _)
PadZeros(ds, n) == IF Len(ds) >= n THEN Take(ds, n) ELSE PadZeros(ds \o <<"0">>, n)

\* The byte at offset k of a C string, NUL at its end.
CharAt(s, k) == IF k < Len(s) THEN s[k + 1] ELSE NUL

SignLen(s, k) == IF CharAt(s, k) \in {"+", "-"} THEN 1 ELSE 0

DigitsAt(s, k) == SpanDigits(Drop(s, k))

\* The exponent part at offset k: it counts only when a digit follows.
ExpDigits(s, k) ==
  IF CharAt(s, k) \in {"e", "E"} THEN DigitsAt(s, k + 1 + SignLen(s, k + 1)) ELSE 0

ExpLen(s, k) == IF ExpDigits(s, k) > 0 THEN 1 + SignLen(s, k + 1) + ExpDigits(s, k) ELSE 0

ExpAbs(edig) == IF Len(edig) > 5 THEN 99999 ELSE SmallNat(edig)

ExpValue(s, k) ==
  IF ExpDigits(s, k) = 0 THEN 0
  ELSE IF CharAt(s, k + 1) = "-"
  THEN 0 - ExpAbs(StripZeros(SubSeq(s, k + 3, k + 2 + ExpDigits(s, k))))
  ELSE ExpAbs(StripZeros(SubSeq(s, k + 2 + SignLen(s, k + 1),
                                k + 1 + SignLen(s, k + 1) + ExpDigits(s, k))))

\* ERANGE: the value lead * 10^(order - Len) is beyond DBL_MAX or below DBL_MIN.
OutOfRange(mant, order) ==
  /\ mant # <<>>
  /\ \/ order > DBL_MAX_10_EXP + 1
     \/ order = DBL_MAX_10_EXP + 1 /\ ~LexLeq(PadZeros(mant, 17), DBL_MAX_LEAD)
     \/ order < DBL_MIN_10_EXP
     \/ order = DBL_MIN_10_EXP /\ ~LexLeq(DBL_MIN_LEAD, PadZeros(mant, 17))

\* neg: the sign; lead: the digits read, leading zeros stripped; nf: how many
\* of them follow the point; e: the exponent written; end: offset of endptr.
StrtodValue(neg, lead, mant, nf, e, end) ==
  [end    |-> end,
   neg    |-> neg,
   digits |-> mant,
   exp    |-> IF mant = <<>> THEN 0 ELSE e - nf + (Len(lead) - Len(mant)),
   noconv |-> FALSE,
   erange |-> OutOfRange(mant, Len(mant) + e - nf + (Len(lead) - Len(mant)))]

\* k: offset of the first digit or point; ni, nf: digits before and after
\* the point; dot: 1 when there is a point.
StrtodDecimal(s, k, neg, ni, dot, nf) ==
  IF ni + nf = 0
  THEN [end |-> 0, neg |-> FALSE, digits |-> <<>>, exp |-> 0, noconv |-> TRUE, erange |-> FALSE]
  ELSE StrtodValue(neg,
                   StripZeros(SubSeq(s, k + 1, k + ni) \o SubSeq(s, k + ni + 2, k + ni + 1 + nf)),
                   StripTrailingZeros(StripZeros(SubSeq(s, k + 1, k + ni)
                                                 \o SubSeq(s, k + ni + 2, k + ni + 1 + nf))),
                   nf,
                   ExpValue(s, k + ni + dot + nf),
                   k + ni + dot + nf + ExpLen(s, k + ni + dot + nf))

StrtodPoint(s, k, neg, ni) ==
  IF CharAt(s, k + ni) = "."
  THEN StrtodDecimal(s, k, neg, ni, 1, DigitsAt(s, k + ni + 1))
  ELSE StrtodDecimal(s, k, neg, ni, 0, 0)

StrtodSigned(s, ws) ==
  StrtodPoint(s, ws + SignLen(s, ws), CharAt(s, ws) = "-",
              DigitsAt(s, ws + SignLen(s, ws)))

\* strtod (s, &endptr) on a C string.
strtod(s) == StrtodSigned(s, SpanSpace(s))

Float64Result(data_str, r, einval) ==
  IF \/ r.erange \/ (r.noconv /\ einval)            \* errno
     \/ data_str[r.end + 1] # NUL                   \* *endptr != '\0'
  THEN NullData
  ELSE [kind |-> "f64", neg |-> r.neg, digits |-> r.digits, exp |-> r.exp, str |-> <<>>]

\* read_data_float64 (data, len) with len = Len(data).
read_data_float64(data, einval) ==
  IF TooLong(Len(data), FLOAT64_STR_MAXLEN) THEN NullData
  ELSE Float64Result(data \o <<NUL>>, strtod(CStr(data \o <<NUL>>)), einval)

\* read_data_string (data, len): the len bytes are copied and a NUL appended;
\* the value handed to iot_data_alloc_string is that buffer read as a C string.
read_data_string(data) ==
  [kind |-> "string", neg |-> FALSE, digits |-> <<>>, exp |-> 0, str |-> CStr(data \o <<NUL>>),
   buf |-> data \o <<NUL>>]

\* ------------------------------------------------------------- registry
\* The device/resource registry queried through edgex_get_device_byname: each
\* device has a name and a chain of profiles (profile, profile->next, ...),
\* each profile a list of resources with a name and a declared value type.

Edgex_Float64 == "Float64"
Edgex_Int32 == "Int32"
Edgex_String == "String"
Edgex_Bool == "Bool"

NoResource == [name |-> NoSeg, type |-> "none"]

ProfileA ==
  << [name |-> <<"h">>, type |-> Edgex_Float64],
     [name |-> <<"s">>, type |-> Edgex_Int32] >>

ProfileB ==
  << [name |-> <<"t">>, type |-> Edgex_Float64],
     [name |-> <<"n">>, type |-> Edgex_Int32],
     [name |-> <<"s">>, type |-> Edgex_String],
     [name |-> <<"b">>, type |-> Edgex_Bool] >>

Devices ==
  << [name |-> <<"d", "1">>, profile |-> <<ProfileA, ProfileB>>],
     [name |-> <<"d", "2">>, profile |-> <<ProfileB>>] >>

NoDevice == 0                 \* a NULL edgex_device pointer; a device is its index in Devices

edgex_get_device_byname(name) ==
  IF \E i \in 1..Len(Devices) : Devices[i].name = name
  THEN CHOOSE i \in 1..Len(Devices) : Devices[i].name = name
  ELSE NoDevice

\* ------------------------------------------------------------ parse_path

\* The tokens strtok (path, "/") and strtok (NULL, "/") yield in turn: the
\* maximal runs of bytes other than '/', so that empty runs are skipped.
RECURSIVE SpanToken(_)
SpanToken(s) ==
  IF s = <<>> \/ Head(s) = "/" THEN 0 ELSE 1 + SpanToken(Tail(s))

RECURSIVE strtok(_)
strtok(path) ==
  IF path = <<>> THEN <<>>
  ELSE IF Head(path) = "/" THEN strtok(Tail(path))
  ELSE <<Take(path, SpanToken(path))>> \o strtok(Drop(path, SpanToken(path)))

\* seg after k calls of strtok: the k-th token, or NULL.
Seg(toks, k) == IF k <= Len(toks) THEN toks[k] ELSE NoSeg

\* Inner loop (lines 213-219): the first resource of the list named seg.
RECURSIVE FindResource(_, _)
FindResource(resources, seg) ==
  IF resources = <<>> THEN NoResource
  ELSE IF Head(resources).name = seg THEN Head(resources)
  ELSE FindResource(Tail(resources), seg)

\* Outer loop (lines 210-220): the break leaves the inner loop only, so every
\* profile of the chain is scanned and the last scan decides resource.
RECURSIVE ScanProfiles(_, _, _)
ScanProfiles(profiles, seg, resource) ==
  IF profiles = <<>> THEN resource
  ELSE ScanProfiles(Tail(profiles), seg, FindResource(Head(profiles), seg))

\* Lines 233-237: a further token after a full match.
ExtraSegment_NoCheck(res, seg) == FALSE

ExtraSegment(res, seg) == res /\ seg # NoSeg

\* Lines 240-244: *device_ptr is assigned only when res holds, and otherwise
\* keeps the caller's NULL.
DevicePtrOut_Always(res, device) == device

DevicePtrOut(res, device) == IF res THEN device ELSE NoDevice

\* Lines 232-249 with the loop's results: the device looked up (if any), the
\* resource the scan left, whether the loop set res, and seg after the loop.
ParseEnd(looked, device, resource, matched, seg) ==
  [res          |-> matched /\ ~ExtraSegment(matched, seg),
   device_ptr   |-> DevicePtrOut(matched /\ ~ExtraSegment(matched, seg), device),
   resource_ptr |-> IF matched /\ ~ExtraSegment(matched, seg) THEN resource ELSE NoResource,
   lookups      |-> IF looked THEN 1 ELSE 0,
   acquired     |-> device,
   frees        |-> IF matched /\ ~ExtraSegment(matched, seg) THEN <<>> ELSE <<device>>]

\* Case 2 of the loop (lines 209-227) for the device found.
ParseResource(toks, device, resource) ==
  ParseEnd(TRUE, device, resource, resource # NoResource, Seg(toks, 4))

\* Case 1 of the loop (lines 201-208) for the device the registry returned.
ParseDevice(toks, device) ==
  IF device = NoDevice \/ Seg(toks, 3) = NoSeg
  THEN ParseEnd(TRUE, device, NoResource, FALSE, NoSeg)
  ELSE ParseResource(toks, device, ScanProfiles(Devices[device].profile, Seg(toks, 3), NoResource))

\* The loop of parse_path over the tokens of the path (lines 182-230).
ParseTokens(toks) ==
  IF Seg(toks, 1) = NoSeg \/ Seg(toks, 1) # RESOURCE_SEG1 \/ Seg(toks, 2) = NoSeg
  THEN ParseEnd(FALSE, NoDevice, NoResource, FALSE, NoSeg)
  ELSE ParseDevice(toks, edgex_get_device_byname(Seg(toks, 2)))

\* parse_path (request, &device, &resource).  lookups counts the calls of
\* edgex_get_device_byname, acquired is the handle it returned, frees lists
\* the arguments of the edgex_free_device calls made here.
parse_path(path) == ParseTokens(strtok(path))

\* ---------------------------------------------------------- data_handler

COAP_REQUEST_GET == 1
COAP_REQUEST_POST == 2
COAP_REQUEST_PUT == 3

NoOption == -1                \* no Content-Format option in the request

\* Lines 295-301: the option value decoded into a uint16_t, or undefined.
ContentFormat(opt) ==
  IF opt = NoOption THEN CONTENT_FORMAT_UNDEFINED ELSE opt % 65536

\* Lines 268-273.
MethodRejected_None(code) == FALSE

MethodRejected(code) == code = COAP_REQUEST_PUT

\* Lines 308, 317, 326: the content formats accepted for a value type.
ContentFormatOK_AnyJson(type, cf) ==
  cf \in {COAP_MEDIATYPE_TEXT_PLAIN, COAP_MEDIATYPE_APPLICATION_JSON}

ContentFormatOK(type, cf) ==
  CASE type = Edgex_Float64 -> cf = COAP_MEDIATYPE_TEXT_PLAIN
    [] type = Edgex_Int32   -> cf = COAP_MEDIATYPE_TEXT_PLAIN
    [] type = Edgex_String  -> cf \in {COAP_MEDIATYPE_TEXT_PLAIN, COAP_MEDIATYPE_APPLICATION_JSON}
    [] OTHER                -> FALSE

\* The cases of the switch (lines 307, 316, 325); any other type is the default.
SupportedType_All(type) == TRUE

SupportedType(type) == type \in {Edgex_Float64, Edgex_Int32, Edgex_String}

\* Lines 313, 322, 331: the decoder the switch dispatches to.
ReadData(type, data, einval) ==
  CASE type = Edgex_Float64 -> read_data_float64(data, einval)
    [] type = Edgex_Int32   -> read_data_int32(data, einval)
    [] type = Edgex_String  -> read_data_string(data)
    [] OTHER                -> NullData

DecoderOf(type) ==
  CASE type = Edgex_Float64 -> "read_data_float64"
    [] type = Edgex_Int32   -> "read_data_int32"
    [] type = Edgex_String  -> "read_data_string"
    [] OTHER                -> "none"

\* Line 340.
IotDataMissing_Never(iot_data) == FALSE

IotDataMissing(iot_data) == iot_data = NullData

\* Line 343: the body added to the 400 response.
BadRequestBody_Empty == NoBody

BadRequestBody == MSG_PAYLOAD_INVALID

NoResponse ==
  [code |-> 0, body |-> NoBody, routed |-> FALSE, lookups |-> 0, acquired |-> NoDevice,
   frees |-> <<>>, cf_read |-> FALSE, decoder |-> "none", posts |-> <<>>,
   allocated |-> 0, data_frees |-> <<>>,
   copy |-> [size |-> 0, writes |-> {}, reads |-> {}]]

\* What data_handler has done once parse_path has returned p, up to the
\* edgex_free_device (device) at finish.
Routed(p) ==
  [NoResponse EXCEPT !.routed = TRUE, !.lookups = p.lookups, !.acquired = p.acquired,
                     !.frees = p.frees \o <<p.device_ptr>>]

\* Line 353: the values passed to iot_data_free after the publish.
ReleasedValues_None(iot_data) == <<>>

ReleasedValues(iot_data) == <<iot_data>>

\* Lines 340-355 with the value the decoder returned (NULL without payload).
Publish(req, p, iot_data) ==
  IF IotDataMissing(iot_data)
  THEN [Routed(p) EXCEPT !.code = 400, !.body = BadRequestBody,
                         !.allocated = IF iot_data = NullData THEN 0 ELSE 1,
                         !.cf_read = req.has_data,
                         !.decoder = IF req.has_data THEN DecoderOf(p.resource_ptr.type)
                                     ELSE "none"]
  ELSE [Routed(p) EXCEPT !.code = 204, !.cf_read = TRUE,
                         !.allocated = IF iot_data = NullData THEN 0 ELSE 1,
                         !.data_frees = ReleasedValues(iot_data),
                         !.decoder = DecoderOf(p.resource_ptr.type),
                         !.posts = << [device   |-> Devices[p.device_ptr].name,
                                       resource |-> p.resource_ptr.name,
                                       value    |-> iot_data] >>]

\* Line 287: coap_get_data finds no payload in the request.
DataAbsent_Late(req) == FALSE

DataAbsent(req) == ~req.has_data

\* Lines 275-339 with the result p of parse_path.
HandleRouted(req, p, einval) ==
  IF ~p.res
  THEN [Routed(p) EXCEPT !.code = 404]
  ELSE IF DataAbsent(req)
  THEN Publish(req, p, NullData)
  ELSE IF ~SupportedType(p.resource_ptr.type)
  THEN [Routed(p) EXCEPT !.code = 500, !.cf_read = TRUE]
  ELSE IF ~ContentFormatOK(p.resource_ptr.type, ContentFormat(req.cf_opt))
  THEN [Routed(p) EXCEPT !.code = 415, !.cf_read = TRUE]
  ELSE Publish(req, p, ReadData(p.resource_ptr.type, req.data, einval))

\* data_handler as a function of the request: the response code and body and
\* the collaborator calls made (registry lookups, edgex_free_device arguments
\* in call order, the decoder invoked, the devsdk_post_readings arguments).
data_handler(req, einval) ==
  IF MethodRejected(req.code)
  THEN [NoResponse EXCEPT !.code = 405]
  ELSE HandleRouted(req, parse_path(req.path), einval)

\* ---------------------------------------------------------------- bounds

MaxRequests == 2              \* requests the readiness loop dispatches in one run
MaxExtraSegs == 1             \* further segments appended to a three-segment path
MaxSmallInt == 50             \* the small integers rendered for the Int32 decoder

\* ------------------------------------------------------------ the inputs

\* Segments joined by '/': an empty segment gives a leading, trailing or
\* doubled separator.
RECURSIVE JoinPath(_)
JoinPath(segs) ==
  IF segs = <<>> THEN <<>>
  ELSE IF Len(segs) = 1 THEN Head(segs)
  ELSE Head(segs) \o <<"/">> \o JoinPath(Tail(segs))

RECURSIVE Extra(_)
Extra(n) == IF n = 0 THEN <<>> ELSE << <<"t">> >> \o Extra(n - 1)

DeviceSegs == {<<"d", "1">>, <<"d", "2">>, <<"x">>}
ResourceSegs == {<<"h">>, <<"t">>, <<"n">>, <<"s">>, <<"b">>}

PathInputs ==
  {JoinPath(<<RESOURCE_SEG1, d, r>>) : d \in DeviceSegs, r \in ResourceSegs}
  \cup {JoinPath(<<RESOURCE_SEG1, <<"d", "2">>, <<"t">>>> \o Extra(n)) : n \in 1..MaxExtraSegs}
  \cup {JoinPath(<<RESOURCE_SEG1, <<"d", "2">>, <<"h">>>> \o Extra(n)) : n \in 1..MaxExtraSegs}
  \cup {JoinPath(segs) : segs \in
          { <<>>,
            <<RESOURCE_SEG1>>,
            <<RESOURCE_SEG1, <<"d", "2">>>>,
            <<RESOURCE_SEG1, <<"x">>>>,
            <<<<"a", "1">>, <<"d", "2">>, <<"t">>>>,
            <<<<"d", "2">>, <<"t">>>>,
            <<<<>>, RESOURCE_SEG1, <<"d", "2">>, <<"t">>>>,
            <<RESOURCE_SEG1, <<>>, <<"d", "2">>, <<"t">>>>,
            <<RESOURCE_SEG1, <<"d", "2">>, <<>>, <<"t">>>>,
            <<RESOURCE_SEG1, <<"d", "2">>, <<"t">>, <<>>>>,
            <<RESOURCE_SEG1, <<"d", "2">>, <<>>>> }}

PayloadInputs ==
  { <<"4", "2">>,
    <<"2", "3", ".", "5">>,
    <<"2", "3", ".", "5", "x">>,
    <<"2", "1", "4", "7", "4", "8", "3", "6", "4", "8">>,
    <<"1", NUL, "x">>,
    <<NUL>> }

OptionInputs ==
  {NoOption, COAP_MEDIATYPE_TEXT_PLAIN, COAP_MEDIATYPE_APPLICATION_JSON,
   COAP_MEDIATYPE_APPLICATION_LINK_FORMAT}

MethodInputs == {COAP_REQUEST_GET, COAP_REQUEST_POST, COAP_REQUEST_PUT}

\* A request PDU: method code, URI path, Content-Format option, payload
\* (coap_get_data tells whether there is one; a payload is never empty).
Requests ==
  [code : MethodInputs, path : PathInputs, cf_opt : OptionInputs,
   has_data : {TRUE}, data : PayloadInputs]
  \cup [code : MethodInputs, path : PathInputs, cf_opt : OptionInputs,
        has_data : {FALSE}, data : {<<>>}]

NoRequest == [code |-> 0, path |-> <<>>, cf_opt |-> NoOption, has_data |-> FALSE, data |-> <<>>]

\* ------------------------------------------------------------- coap_init

SECURITY_MODE_PSK == "SECURITY_MODE_PSK"
SECURITY_MODE_NOSEC == "SECURITY_MODE_NOSEC"
SECURITY_MODE_UNKNOWN == "SECURITY_MODE_UNKNOWN"

find_security_mode(mode_text) ==
  IF mode_text = "PSK" THEN SECURITY_MODE_PSK
  ELSE IF mode_text = "NoSec" THEN SECURITY_MODE_NOSEC
  ELSE SECURITY_MODE_UNKNOWN

B64Chars ==
  <<"A", "B", "C", "D", "E", "F", "G", "H", "I", "J", "K", "L", "M", "N", "O", "P",
     "Q", "R", "S", "T", "U", "V", "W", "X", "Y", "Z", "a", "b", "c", "d", "e", "f",
     "g", "h", "i", "j", "k", "l", "m", "n", "o", "p", "q", "r", "s", "t", "u", "v",
     "w", "x", "y", "z", "0", "1", "2", "3", "4", "5", "6", "7", "8", "9", "+", "/" >>

B64Val(c) == (CHOOSE i \in 1..64 : B64Chars[i] = c) - 1

IsB64(c) == \E i \in 1..64 : B64Chars[i] = c

\* The bytes of one group of four base64 characters ('=' pads the last group).
B64Group(g) ==
  LET v(i) == IF g[i] = "=" THEN 0 ELSE B64Val(g[i])
      b1   == v(1) * 4 + v(2) \div 16
      b2   == (v(2) % 16) * 16 + v(3) \div 4
      b3   == (v(3) % 4) * 64 + v(4)
  IN  IF g[3] = "=" THEN <<b1>> ELSE IF g[4] = "=" THEN <<b1, b2>> ELSE <<b1, b2, b3>>

RECURSIVE B64Bytes(_)
B64Bytes(text) ==
  IF text = <<>> THEN <<>> ELSE B64Group(Take(text, 4)) \o B64Bytes(Drop(text, 4))

NullKey == [null |-> TRUE, bytes |-> <<>>]

\* One group of four characters is base64: '=' only pads its end, at most twice.
B64GroupOK(g, last) ==
  /\ IsB64(g[1]) /\ IsB64(g[2])
  /\ \/ IsB64(g[3]) /\ IsB64(g[4])
     \/ last /\ IsB64(g[3]) /\ g[4] = "="
     \/ last /\ g[3] = "=" /\ g[4] = "="

RECURSIVE B64TextOK(_)
B64TextOK(text) ==
  IF text = <<>> THEN TRUE
  ELSE /\ Len(text) >= 4
       /\ B64GroupOK(Take(text, 4), Len(text) = 4)
       /\ B64TextOK(Drop(text, 4))

\* iot_data_alloc_array_from_base64: the decoded bytes, or NULL for text that
\* is not base64.
iot_data_alloc_array_from_base64(text) ==
  IF B64TextOK(text) THEN [null |-> FALSE, bytes |-> B64Bytes(text)] ELSE NullKey

ModeTexts == {"NoSec", "PSK", "Bogus"}
PskKeyTexts == {<<>>, <<"T", "Q", "=", "=">>, <<"!">>}
BindAddrs == {"0.0.0.0"}
Configs == [SecurityMode : ModeTexts, PskKey : PskKeyTexts, CoapBindAddr : BindAddrs]

ZeroDriver ==
  [security_mode |-> "unset", psk_key |-> NullKey, coap_bind_addr |-> "NULL"]

\* Line 539: strlen (conf_psk_key) is zero.
KeyTextMissing_Never(text) == FALSE

KeyTextMissing(text) == Len(text) = 0

\* Lines 541-543 and 557-571: the key is decoded and its length logged, then
\* the bind address is copied.  iot_data_array_length reads through the array
\* pointer, so a NULL key ends the process there.
InitWithKey(d0, config, key) ==
  IF key.null
  THEN [ok |-> FALSE, why |-> "key_null", driver |-> [d0 EXCEPT !.psk_key = key]]
  ELSE [ok |-> TRUE, why |-> "none",
        driver |-> [d0 EXCEPT !.psk_key = key, !.coap_bind_addr = config.CoapBindAddr]]

\* Lines 530-555: the switch on the security mode.
InitMode(d0, config, mode) ==
  IF mode = SECURITY_MODE_UNKNOWN
  THEN [ok |-> FALSE, why |-> "mode", driver |-> [d0 EXCEPT !.psk_key = NullKey]]
  ELSE IF mode = SECURITY_MODE_PSK
  THEN IF KeyTextMissing(config.PskKey)
       THEN [ok |-> FALSE, why |-> "key", driver |-> [d0 EXCEPT !.psk_key = NullKey]]
       ELSE InitWithKey(d0, config, iot_data_alloc_array_from_base64(config.PskKey))
  ELSE [ok |-> TRUE, why |-> "none",
        driver |-> [d0 EXCEPT !.psk_key = NullKey,
                              !.coap_bind_addr = config.CoapBindAddr]]

\* coap_init (impl, lc, config): the driver fields it leaves and its result.
coap_init(driver, config) ==
  InitMode([driver EXCEPT !.security_mode = find_security_mode(config.SecurityMode)],
           config, find_security_mode(config.SecurityMode))

\* ----------------------------------------------------------------- state

VARIABLES
  pc,             \* position of the main thread in main / run_server
  args,           \* what follows the SDK's own options in argv
  config,         \* the [Driver] configuration handed to coap_init
  libc_einval,    \* the C library sets EINVAL when strtol/strtod convert nothing
  driver,         \* the coap_driver fields
  bind_addr,      \* run_server's bind_addr as resolve_address left it
  quit,           \* the stop flag
  sig_installed,  \* handle_sig is installed for SIGINT and SIGTERM
  interrupted,    \* a signal arrived while the thread is blocked in the wait
  lib,            \* libcoap's process-wide state: "down", "up", "cleaned", "cleaned_twice"
  ctx,            \* the coap_context_t: "NULL", "live", "freed", "freed_twice"
  ctx_psk,        \* the key installed in the context
  endpoint,       \* the bound endpoint
  handlers,       \* request codes the unknown-resource handler is registered for
  result,         \* run_server's result
  ran,            \* the readiness loop was entered
  fail,           \* the startup step that failed
  exit_status,    \* the process exit status, NotExited while running
  request,        \* the request being dispatched
  response,       \* what data_handler did for it
  nhandled,       \* requests dispatched so far
  nposted,        \* devsdk_post_readings calls so far
  held,           \* device handles acquired and not yet released
  alive           \* decoded values allocated and not yet released

vars ==
  <<pc, args, config, libc_einval, driver, bind_addr, quit, sig_installed, interrupted, lib, ctx,
    ctx_psk, endpoint, handlers, result, ran, fail, exit_status, request, response,
    nhandled, nposted, held, alive>>

EXIT_SUCCESS == 0
EXIT_FAILURE == 1
NotExited == -1
SdkErrorCode == 1             \* a non-zero devsdk_error code
KilledStatus == {134, 139}    \* the process is ended by SIGABRT or SIGSEGV

NoEndpoint == [proto |-> "none", port |-> "none"]

\* The address after memset (line 60).
NoAddr == [size |-> 0, family |-> "none"]

Init ==
  /\ pc = "main"
  /\ args \in {"none", "help", "other"}
  /\ config \in Configs
  /\ libc_einval \in BOOLEAN
  /\ driver = ZeroDriver
  /\ bind_addr = NoAddr
  /\ quit = 0
  /\ sig_installed = FALSE
  /\ interrupted = FALSE
  /\ lib = "down"
  /\ ctx = "NULL"
  /\ ctx_psk = NullKey
  /\ endpoint = NoEndpoint
  /\ handlers = {}
  /\ result = EXIT_FAILURE
  /\ ran = FALSE
  /\ fail = "none"
  /\ exit_status = NotExited
  /\ request = NoRequest
  /\ response = NoResponse
  /\ nhandled = 0
  /\ nposted = 0
  /\ held = 0
  /\ alive = 0

\* ------------------------------------------------------------------ main

Exit(status) ==
  /\ pc' = "exited"
  /\ exit_status' = status

\* devsdk_service_new and ERR_CHECK (lines 660-663).
MainServiceNew ==
  /\ pc = "main"
  /\ \E ok \in BOOLEAN :
       IF ok
       THEN /\ pc' = "options"
            /\ UNCHANGED <<exit_status, fail>>
       ELSE /\ Exit(SdkErrorCode)
            /\ fail' = "service_new"
  /\ UNCHANGED <<args, config, libc_einval, driver, bind_addr, quit, sig_installed, interrupted, lib,
                 ctx, ctx_psk, endpoint, handlers, result, ran, request, response,
                 nhandled, nposted, held, alive>>

\* The option loop (lines 665-680): any remaining argument ends the process
\* with status 0.
MainOptions ==
  /\ pc = "options"
  /\ IF args = "none"
     THEN /\ pc' = "service_start"
          /\ UNCHANGED exit_status
     ELSE Exit(0)
  /\ UNCHANGED <<args, config, libc_einval, driver, bind_addr, quit, sig_installed, interrupted, lib,
                 ctx, ctx_psk, endpoint, handlers, result, ran, fail, request, response,
                 nhandled, nposted, held, alive>>

\* devsdk_service_start (lines 688-689): the SDK calls coap_init with the
\* driver configuration and reports an error when it returns false or when
\* the SDK's own startup fails.
MainServiceStart ==
  /\ pc = "service_start"
  /\ LET r == coap_init(driver, config) IN
       /\ driver' = r.driver
       /\ IF r.why = "key_null"
          THEN /\ \E status \in KilledStatus : Exit(status)
               /\ fail' = r.why
          ELSE \E sdk_ok \in BOOLEAN :
                 IF r.ok /\ sdk_ok
                 THEN /\ pc' = "run_server"
                      /\ UNCHANGED <<exit_status, fail>>
                 ELSE /\ Exit(SdkErrorCode)
                      /\ fail' = IF r.ok THEN "service_start" ELSE r.why
  /\ UNCHANGED <<args, config, libc_einval, bind_addr, quit, sig_installed, interrupted, lib, ctx,
                 ctx_psk, endpoint, handlers, result, ran, request, response, nhandled,
                 nposted, held, alive>>

\* devsdk_service_stop, ERR_CHECK and return 0 (lines 692-703): the value
\* run_server returned is not looked at.
MainServiceStop ==
  /\ pc = "service_stop"
  /\ \E ok \in BOOLEAN : Exit(IF ok THEN 0 ELSE SdkErrorCode)
  /\ UNCHANGED <<args, config, libc_einval, driver, bind_addr, quit, sig_installed, interrupted, lib,
                 ctx, ctx_psk, endpoint, handlers, result, ran, fail, request, response,
                 nhandled, nposted, held, alive>>

\* ------------------------------------------------------------ run_server

COAP_PROTO_UDP == "COAP_PROTO_UDP"
COAP_PROTO_DTLS == "COAP_PROTO_DTLS"

\* Lines 402-408.
ProtoOf_AlwaysUdp(security_mode) == COAP_PROTO_UDP

ProtoOf(security_mode) ==
  IF security_mode # SECURITY_MODE_NOSEC THEN COAP_PROTO_DTLS ELSE COAP_PROTO_UDP

PortOf(security_mode) ==
  IF security_mode # SECURITY_MODE_NOSEC THEN "5684" ELSE "5683"

\* goto finish with result still EXIT_FAILURE.
Finish(why) ==
  /\ pc' = "free_context"
  /\ fail' = why

\* Lines 364-399: result = EXIT_FAILURE, coap_startup, log levels.
RsStartup ==
  /\ pc = "run_server"
  /\ result' = EXIT_FAILURE
  /\ lib' = "up"
  /\ pc' = "resolve"
  /\ UNCHANGED <<args, config, libc_einval, driver, bind_addr, quit, sig_installed, interrupted, ctx,
                 ctx_psk, endpoint, handlers, ran, fail, exit_status, request, response,
                 nhandled, nposted, held, alive>>

\* getaddrinfo's error codes as <netdb.h> of the Linux C libraries (glibc,
\* musl) defines them; 0 is success.
EAI_NONAME == -2
EAI_AGAIN == -3
EAI_SYSTEM == -11
GaiResults == {0, EAI_NONAME, EAI_AGAIN, EAI_SYSTEM}

\* sizeof (lib_addr->addr): room for a sockaddr_in6.
ADDR_BUF_SIZE == 28

AF_INET == "AF_INET"
AF_INET6 == "AF_INET6"
AF_OTHER == "AF_OTHER"

\* The addrinfo lists getaddrinfo may answer: family and ai_addrlen of each entry.
AddrInfoInputs ==
  { << [ai_family |-> AF_INET, ai_addrlen |-> 16] >>,
    << [ai_family |-> AF_INET6, ai_addrlen |-> 28],
       [ai_family |-> AF_INET, ai_addrlen |-> 16] >>,
    << [ai_family |-> AF_OTHER, ai_addrlen |-> 20],
       [ai_family |-> AF_INET, ai_addrlen |-> 16] >>,
    << [ai_family |-> AF_OTHER, ai_addrlen |-> 110] >>,
    << [ai_family |-> AF_OTHER, ai_addrlen |-> 20] >> }

\* Lines 72-87: the first entry that fits the buffer and is an internet
\* address is copied; len stays -1 when there is none.
RECURSIVE ScanAddrInfo(_)
ScanAddrInfo(ainfo) ==
  IF ainfo = <<>> THEN [ret |-> -1, addr |-> NoAddr]
  ELSE IF Head(ainfo).ai_addrlen <= ADDR_BUF_SIZE /\ Head(ainfo).ai_family \in {AF_INET, AF_INET6}
  THEN [ret  |-> Head(ainfo).ai_addrlen,
        addr |-> [size |-> Head(ainfo).ai_addrlen, family |-> Head(ainfo).ai_family]]
  ELSE ScanAddrInfo(Tail(ainfo))

\* resolve_address (host, service, lib_addr) given what getaddrinfo answered:
\* the value returned and *lib_addr.
resolve_address(error, ainfo) ==
  IF error # 0 THEN [ret |-> error, addr |-> NoAddr] ELSE ScanAddrInfo(ainfo)

\* Line 409: the test run_server applies to resolve_address's value.
ResolveFailed_OnlyMinusOne(ret) == ret = -1

ResolveFailed(ret) == ret < 0

\* Lines 409-412.
RsResolve ==
  /\ pc = "resolve"
  /\ \E error \in GaiResults, ainfo \in AddrInfoInputs :
       /\ bind_addr' = resolve_address(error, ainfo).addr
       /\ IF ResolveFailed(resolve_address(error, ainfo).ret)
          THEN Finish("resolve")
          ELSE pc' = "new_context" /\ UNCHANGED fail
  /\ UNCHANGED <<args, config, libc_einval, driver, quit, sig_installed, interrupted, lib,
                 ctx, ctx_psk, endpoint, handlers, result, ran, exit_status, request,
                 response, nhandled, nposted, held, alive>>

\* Lines 415-419.
RsNewContext ==
  /\ pc = "new_context"
  /\ \E ok \in BOOLEAN :
       IF ok
       THEN ctx' = "live" /\ pc' = "set_psk" /\ UNCHANGED fail
       ELSE ctx' = ctx /\ Finish("context")
  /\ UNCHANGED <<args, config, libc_einval, driver, bind_addr, quit, sig_installed, interrupted, lib,
                 ctx_psk, endpoint, handlers, result, ran, exit_status, request, response,
                 nhandled, nposted, held, alive>>

\* Lines 421-434.
RsSetPsk ==
  /\ pc = "set_psk"
  /\ IF driver.security_mode = SECURITY_MODE_PSK
     THEN \E ok \in BOOLEAN :
            IF ok
            THEN ctx_psk' = driver.psk_key /\ pc' = "new_endpoint" /\ UNCHANGED fail
            ELSE ctx_psk' = ctx_psk /\ Finish("psk")
     ELSE ctx_psk' = ctx_psk /\ pc' = "new_endpoint" /\ UNCHANGED fail
  /\ UNCHANGED <<args, config, libc_einval, driver, bind_addr, quit, sig_installed, interrupted, lib,
                 ctx, endpoint, handlers, result, ran, exit_status, request, response,
                 nhandled, nposted, held, alive>>

\* Lines 436-440.
RsNewEndpoint ==
  /\ pc = "new_endpoint"
  /\ \E ok \in BOOLEAN :
       IF ok
       THEN /\ endpoint' = [proto |-> ProtoOf(driver.security_mode),
                            port  |-> PortOf(driver.security_mode)]
            /\ pc' = "register"
            /\ UNCHANGED fail
       ELSE /\ endpoint' = endpoint
            /\ Finish("endpoint")
  /\ UNCHANGED <<args, config, libc_einval, driver, bind_addr, quit, sig_installed, interrupted, lib,
                 ctx, ctx_psk, handlers, result, ran, exit_status, request, response,
                 nhandled, nposted, held, alive>>

\* Lines 442-446: coap_resource_unknown_init registers data_handler for PUT,
\* coap_register_handler adds POST.
RegisteredHandlers_WithGet == {COAP_REQUEST_PUT, COAP_REQUEST_POST, COAP_REQUEST_GET}

RegisteredHandlers == {COAP_REQUEST_PUT, COAP_REQUEST_POST}

\* Lines 442-456: register the handler, install handle_sig, enter the loop.
RsRegister ==
  /\ pc = "register"
  /\ handlers' = RegisteredHandlers
  /\ sig_installed' = TRUE
  /\ pc' = "started"
  /\ UNCHANGED <<args, config, libc_einval, driver, bind_addr, quit, interrupted, lib, ctx, ctx_psk,
                 endpoint, result, ran, fail, exit_status, request, response, nhandled,
                 nposted, held, alive>>

\* Lines 455-458: with the signal handlers in place, the start is logged and
\* the loop is reached.
RsStarted ==
  /\ pc = "started"
  /\ ran' = TRUE
  /\ pc' = "loop_check"
  /\ UNCHANGED <<args, config, libc_einval, driver, bind_addr, quit, sig_installed, interrupted,
                 lib, ctx, ctx_psk, endpoint, handlers, result, fail, exit_status, request,
                 response, nhandled, nposted, held, alive>>

\* Line 458: while (!quit); line 463 when the loop ends.
LoopCheck ==
  /\ pc = "loop_check"
  /\ IF quit = 0
     THEN pc' = "io_call" /\ UNCHANGED result
     ELSE pc' = "free_context" /\ result' = EXIT_SUCCESS
  /\ UNCHANGED <<args, config, libc_einval, driver, bind_addr, quit, sig_installed, interrupted, lib,
                 ctx, ctx_psk, endpoint, handlers, ran, fail, exit_status, request,
                 response, nhandled, nposted, held, alive>>

\* Line 460: coap_io_process (ctx, COAP_IO_WAIT) is called and blocks in the
\* readiness wait.
IoCall ==
  /\ pc = "io_call"
  /\ pc' = "io_wait"
  /\ interrupted' = FALSE
  /\ UNCHANGED <<args, config, libc_einval, driver, bind_addr, quit, sig_installed, lib, ctx, ctx_psk,
                 endpoint, handlers, result, ran, fail, exit_status, request, response,
                 nhandled, nposted, held, alive>>

\* The wait ends with EINTR: handle_sig was installed without SA_RESTART
\* (line 451), so a signal taken during the wait ends it.
IoInterrupted ==
  /\ pc = "io_wait"
  /\ interrupted
  /\ interrupted' = FALSE
  /\ pc' = "loop_check"
  /\ UNCHANGED <<args, config, libc_einval, driver, bind_addr, quit, sig_installed, lib, ctx, ctx_psk,
                 endpoint, handlers, result, ran, fail, exit_status, request, response,
                 nhandled, nposted, held, alive>>

\* A request arrives and ends the wait.  The library calls data_handler for
\* the request codes it is registered for and answers the others itself.
IoReady ==
  /\ pc = "io_wait"
  /\ nhandled < MaxRequests
  /\ \E req \in Requests :
       /\ request' = req
       /\ pc' = IF req.code \in handlers THEN "in_handler" ELSE "io_return"
  /\ response' = NoResponse
  /\ nhandled' = nhandled + 1
  /\ interrupted' = FALSE
  /\ UNCHANGED <<args, config, libc_einval, driver, bind_addr, quit, sig_installed, lib, ctx, ctx_psk,
                 endpoint, handlers, result, ran, fail, exit_status, nposted, held, alive>>

RECURSIVE CountHandles(_)
CountHandles(frees) ==
  IF frees = <<>> THEN 0
  ELSE (IF Head(frees) # NoDevice THEN 1 ELSE 0) + CountHandles(Tail(frees))

\* The values iot_data_free releases: a call with NULL releases nothing.
RECURSIVE CountValues(_)
CountValues(data_frees) ==
  IF data_frees = <<>> THEN 0
  ELSE (IF Head(data_frees) # NullData THEN 1 ELSE 0) + CountValues(Tail(data_frees))

\* data_handler returns (lines 256-359).
HandlerReturns ==
  /\ response' = data_handler(request, libc_einval)
  /\ nposted' = nposted + Len(response'.posts)
  /\ held' = held + (IF response'.acquired # NoDevice THEN 1 ELSE 0)
                  - CountHandles(response'.frees)
  /\ alive' = alive + response'.allocated - CountValues(response'.data_frees)
  /\ pc' = "io_return"
  /\ UNCHANGED <<fail, exit_status>>

SegvStatus == 139             \* the exit status of a process ended by SIGSEGV

\* malloc returns NULL in read_data_string (line 154): the result is not
\* tested, memcpy writes through the null pointer (line 155) and the process
\* is ended by SIGSEGV inside the handler, with the device handle held and no
\* response code set.
HandlerCrashes ==
  /\ data_handler(request, libc_einval).decoder = "read_data_string"
  /\ response' = [Routed(parse_path(request.path)) EXCEPT
                    !.frees = <<>>, !.cf_read = TRUE, !.decoder = "read_data_string"]
  /\ held' = held + 1
  /\ nposted' = nposted
  /\ alive' = alive
  /\ fail' = "malloc"
  /\ Exit(SegvStatus)

\* data_handler runs for the request in hand.
DataHandler ==
  /\ pc = "in_handler"
  /\ HandlerReturns \/ HandlerCrashes
  /\ UNCHANGED <<args, config, libc_einval, driver, bind_addr, quit, sig_installed, interrupted, lib,
                 ctx, ctx_psk, endpoint, handlers, result, ran, request, nhandled>>

\* coap_io_process returns to the loop; the request and response PDUs are gone.
IoReturn ==
  /\ pc = "io_return"
  /\ request' = NoRequest
  /\ response' = NoResponse
  /\ pc' = "loop_check"
  /\ UNCHANGED <<args, config, libc_einval, driver, bind_addr, quit, sig_installed, interrupted, lib,
                 ctx, ctx_psk, endpoint, handlers, result, ran, fail, exit_status,
                 nhandled, nposted, held, alive>>

\* coap_free_context on the context pointer: NULL is left alone, a live
\* context is released, a released one would be released again.
coap_free_context_Leak(c) == c

coap_free_context(c) ==
  IF c = "NULL" THEN "NULL" ELSE IF c = "live" THEN "freed" ELSE "freed_twice"

\* coap_cleanup on the library's process-wide state.
coap_cleanup(l) == IF l = "up" THEN "cleaned" ELSE "cleaned_twice"

\* Line 467: coap_free_context (ctx).
RsFreeContext ==
  /\ pc = "free_context"
  /\ ctx' = coap_free_context(ctx)
  /\ pc' = "cleanup"
  /\ UNCHANGED <<args, config, libc_einval, driver, bind_addr, quit, sig_installed, interrupted, lib,
                 ctx_psk, endpoint, handlers, result, ran, fail, exit_status, request,
                 response, nhandled, nposted, held, alive>>

\* Lines 468-470: coap_cleanup (); return result.
RsCleanup ==
  /\ pc = "cleanup"
  /\ lib' = coap_cleanup(lib)
  /\ pc' = "service_stop"
  /\ UNCHANGED <<args, config, libc_einval, driver, bind_addr, quit, sig_installed, interrupted, ctx,
                 ctx_psk, endpoint, handlers, result, ran, fail, exit_status, request,
                 response, nhandled, nposted, held, alive>>

\* handle_sig (lines 41-46), run on SIGINT or SIGTERM at any point of the
\* main thread once installed.  A signal taken while the thread is blocked in
\* the readiness wait also ends that wait.
\* Line 46: handle_sig returns, and the main thread goes on from the point
\* it was interrupted at.
PcAfterSignal_Abort(p) ==
  IF p \in {"io_call", "io_wait", "in_handler", "io_return"} THEN "free_context" ELSE p

PcAfterSignal_Restart(p) == IF p = "io_wait" THEN "loop_check" ELSE p

PcAfterSignal(p) == p

handle_sig ==
  /\ sig_installed
  /\ pc # "exited"
  /\ quit' = 1
  /\ interrupted' = (interrupted \/ pc = "io_wait")
  /\ pc' = PcAfterSignal(pc)
  /\ UNCHANGED <<args, config, libc_einval, driver, bind_addr, sig_installed, lib, ctx, ctx_psk,
                 endpoint, handlers, result, ran, fail, exit_status, request, response,
                 nhandled, nposted, held, alive>>

\* The steps of the main thread, and the environment's.
MainThread ==
  \/ MainServiceNew \/ MainOptions \/ MainServiceStart \/ MainServiceStop
  \/ RsStartup \/ RsResolve \/ RsNewContext \/ RsSetPsk \/ RsNewEndpoint \/ RsRegister
  \/ RsStarted
  \/ LoopCheck \/ IoCall \/ IoInterrupted \/ DataHandler \/ IoReturn
  \/ RsFreeContext \/ RsCleanup

Next == MainThread \/ IoReady \/ handle_sig

Spec == Init /\ [][Next]_vars

\* The main thread keeps running while it has a step to take; nothing
\* obliges a request or a signal to arrive.
LiveSpec == Init /\ [][Next]_vars /\ WF_vars(MainThread)

\* ------------------------------------------------- the decoders alone
\* The three decoders applied to a buffer outside any request.

\* printf ("%d"): the ASCII decimal rendering of an int.
RECURSIVE UDigits(_)
UDigits(n) ==
  IF n < 10 THEN <<DigitChars[n + 1]>>
  ELSE UDigits(n \div 10) \o <<DigitChars[(n % 10) + 1]>>

\* The digits of the magnitude of n <= 0, computed without negating n.
LastDigitNeg(n) == (10 - (n % 10)) % 10

RECURSIVE NDigits(_)
NDigits(n) ==
  IF n > -10 THEN <<DigitChars[(0 - n) + 1]>>
  ELSE NDigits((n + LastDigitNeg(n)) \div 10) \o <<DigitChars[LastDigitNeg(n) + 1]>>

Render(v) == IF v < 0 THEN <<"-">> \o NDigits(v) ELSE UDigits(v)

INT32_MAX == 2147483647
INT32_MIN == -2147483647 - 1

\* Powers of ten and their neighbours.
Pow10 == {10, 100, 1000, 10000, 100000, 1000000, 10000000, 100000000, 1000000000}

IntInputs ==
  {INT32_MIN, INT32_MIN + 1, INT32_MAX - 1, INT32_MAX}
  \cup (-MaxSmallInt..MaxSmallInt)
  \cup Pow10 \cup {0 - p : p \in Pow10} \cup {p - 1 : p \in Pow10} \cup {1 - p : p \in Pow10}

\* Renderings of integers just outside and far outside the int32 range, of
\* at most INT32_STR_MAXLEN bytes.
WideInputs ==
  { <<"2", "1", "4", "7", "4", "8", "3", "6", "4", "8">>,
    <<"-", "2", "1", "4", "7", "4", "8", "3", "6", "4", "9">>,
    <<"2", "1", "4", "7", "4", "8", "3", "6", "5", "0">>,
    <<"3", "0", "0", "0", "0", "0", "0", "0", "0", "0">>,
    <<"4", "2", "9", "4", "9", "6", "7", "2", "9", "6">>,
    <<"-", "4", "2", "9", "4", "9", "6", "7", "2", "9", "6">>,
    <<"9", "9", "9", "9", "9", "9", "9", "9", "9", "9">>,
    <<"-", "9", "9", "9", "9", "9", "9", "9", "9", "9", "9">>,
    <<"1", "0", "0", "0", "0", "0", "0", "0", "0", "0", "0">>,
    <<"9", "9", "9", "9", "9", "9", "9", "9", "9", "9", "9">> }

\* The last set holds digit strings of the longest accepted and the shortest
\* rejected length of each numeric decoder.
DecoderInputs ==
  {Render(v) : v \in IntInputs} \cup WideInputs \cup PayloadInputs
  \cup {[i \in 1..n |-> IF i = n THEN "7" ELSE "0"] :
          n \in {INT32_STR_MAXLEN, INT32_STR_MAXLEN + 1,
                 FLOAT64_STR_MAXLEN, FLOAT64_STR_MAXLEN + 1}}

NoValue == [device |-> <<>>, resource |-> <<>>, value |-> NullData]

DecInit ==
  /\ Init
  /\ args = "none"
  /\ config = [SecurityMode |-> "NoSec", PskKey |-> <<>>, CoapBindAddr |-> "0.0.0.0"]

\* The buffer to decode is taken.
DecTake ==
  /\ pc = "main"
  /\ \E data \in DecoderInputs :
       request' = [NoRequest EXCEPT !.has_data = TRUE, !.data = data]
  /\ pc' = "decode"
  /\ UNCHANGED <<args, config, libc_einval, driver, bind_addr, quit, sig_installed, interrupted, lib,
                 ctx, ctx_psk, endpoint, handlers, result, ran, fail, exit_status, response,
                 nhandled, nposted, held, alive>>

Decoded(decoder, value, copy) ==
  /\ response' = [NoResponse EXCEPT !.decoder = decoder,
                                    !.posts = <<[NoValue EXCEPT !.value = value]>>,
                                    !.copy = copy]
  /\ pc' = "decoded"
  /\ UNCHANGED <<args, config, libc_einval, driver, bind_addr, quit, sig_installed, interrupted, lib,
                 ctx, ctx_psk, endpoint, handlers, result, ran, fail, exit_status, request,
                 nhandled, nposted, held, alive>>

DecInt32 ==
  /\ pc = "decode"
  /\ Decoded("read_data_int32", read_data_int32(request.data, libc_einval),
             CopyToBuffer(request.data, INT32_STR_MAXLEN))

DecFloat64 ==
  /\ pc = "decode"
  /\ Decoded("read_data_float64", read_data_float64(request.data, libc_einval),
             CopyToBuffer(request.data, FLOAT64_STR_MAXLEN))

DecString ==
  /\ pc = "decode"
  /\ Decoded("read_data_string", read_data_string(request.data),
             CopyToBuffer(request.data, Len(request.data)))

DecNext == DecTake \/ DecInt32 \/ DecFloat64 \/ DecString

DecSpec == DecInit /\ [][DecNext]_vars

\* ---------------------------------------------------------------- claims

\* data_handler has returned for the request in hand.
HandlerReturned == pc = "io_return" /\ response.code # 0

\* What the path of the request in hand routes to.
Route == parse_path(request.path)

RECURSIVE Occurrences(_, _)
Occurrences(seq, x) ==
  IF seq = <<>> THEN 0
  ELSE (IF Head(seq) = x THEN 1 ELSE 0) + Occurrences(Tail(seq), x)

\* C1: whenever data_handler returns after routing, with any response code,
\* the device handle the registry lookup returned has been passed to
\* edgex_free_device exactly once, no other handle has been released, and no
\* handle is left held.
C1_HandleReleasedOnce ==
  (HandlerReturned /\ response.routed) =>
    /\ response.code \in {204, 400, 404, 415, 500}
    /\ response.acquired # NoDevice => Occurrences(response.frees, response.acquired) = 1
    /\ CountHandles(response.frees) = (IF response.acquired # NoDevice THEN 1 ELSE 0)
    /\ held = 0

\* C1 witness: a request for an unknown resource of a known device is
\* answered 404 after the device handle was acquired.
C1_Witness ==
  /\ HandlerReturned
  /\ response.code = 404
  /\ response.acquired # NoDevice
  /\ request.path = JoinPath(<<RESOURCE_SEG1, <<"d", "2">>, <<"h">>>>)

\* C2: a 204 response comes with exactly one devsdk_post_readings call, made
\* with the routed device's name, the routed resource's name and the value
\* the decoder returned; every other response comes with no such call.
C2_PublishOnceOnSuccess ==
  HandlerReturned =>
    /\ response.code \in {204, 400, 404, 405, 415, 500}
    /\ response.code # 204 => response.posts = <<>>
    /\ response.code = 204 =>
         /\ Route.res
         /\ request.has_data
         /\ ReadData(Route.resource_ptr.type, request.data, libc_einval) # NullData
         /\ response.posts =
              << [device   |-> Devices[Route.device_ptr].name,
                  resource |-> Route.resource_ptr.name,
                  value    |-> ReadData(Route.resource_ptr.type, request.data, libc_einval)] >>

\* C2 witness: POST a1r/d2/t, text/plain, "23.5" on a Float64 resource is
\* answered 204 and (d2, t, 23.5) is published.
C2_Witness ==
  /\ HandlerReturned
  /\ response.code = 204
  /\ request.data = <<"2", "3", ".", "5">>
  /\ response.posts =
       << [device |-> <<"d", "2">>, resource |-> <<"t">>,
           value |-> [kind |-> "f64", neg |-> FALSE, digits |-> <<"2", "3", "5">>,
                      exp |-> -1, str |-> <<>>]] >>

\* C3: a PUT request is answered 405 and nothing else is done for it: no
\* registry lookup, no edgex_free_device call, no content-format read, no
\* decoder, no publish, no handle held.
C3_PutRejectedBeforeRouting ==
  (HandlerReturned /\ request.code = COAP_REQUEST_PUT) =>
    /\ response = [NoResponse EXCEPT !.code = 405]
    /\ held = 0

\* C3 witness: a PUT whose path, content format and payload would otherwise
\* be accepted.
C3_Witness ==
  /\ HandlerReturned
  /\ request.code = COAP_REQUEST_PUT
  /\ request.path = JoinPath(<<RESOURCE_SEG1, <<"d", "2">>, <<"t">>>>)
  /\ request.cf_opt = COAP_MEDIATYPE_TEXT_PLAIN
  /\ request.data = <<"2", "3", ".", "5">>
  /\ response.code = 405

\* C4: data_handler runs only for the request codes it is registered for;
\* every request it handles whose method is not POST is answered 405, and a
\* request reaches parse_path only if its method is POST.
C4_OnlyPostRouted ==
  /\ pc = "in_handler" => request.code \in {COAP_REQUEST_PUT, COAP_REQUEST_POST}
  /\ HandlerReturned =>
       /\ request.code # COAP_REQUEST_POST => response.code = 405
       /\ response.routed => request.code = COAP_REQUEST_POST
       /\ request.code = COAP_REQUEST_POST => response.routed

\* C4 witness: a handled request other than POST, on a path that does not
\* route, is answered 405.
C4_Witness ==
  /\ HandlerReturned
  /\ request.code # COAP_REQUEST_POST
  /\ request.path = <<>>
  /\ response.code = 405

\* The segments of the request path as parse_path reads them.
PathSegs == strtok(request.path)

Malformed == Len(PathSegs) # 3 \/ PathSegs[1] # RESOURCE_SEG1

UnknownDevice ==
  Len(PathSegs) >= 2 /\ \A i \in 1..Len(Devices) : Devices[i].name # PathSegs[2]

UnknownResource ==
  /\ Len(PathSegs) >= 3
  /\ \E i \in 1..Len(Devices) :
       /\ Devices[i].name = PathSegs[2]
       /\ \A j \in 1..Len(Devices[i].profile) :
            \A k \in 1..Len(Devices[i].profile[j]) :
              Devices[i].profile[j][k].name # PathSegs[3]

Acceptable(type, opt) ==
  \/ type \in {Edgex_Float64, Edgex_Int32} /\ opt = COAP_MEDIATYPE_TEXT_PLAIN
  \/ type = Edgex_String
       /\ opt \in {COAP_MEDIATYPE_TEXT_PLAIN, COAP_MEDIATYPE_APPLICATION_JSON}

\* The value kinds the claims name as supported.
ClaimedKinds == {Edgex_Float64, Edgex_Int32, Edgex_String}

\* A POST that parse_path routed to a resource.
RoutedPost == HandlerReturned /\ request.code = COAP_REQUEST_POST /\ Route.res

\* C6: for a routed POST with a payload on a Float64, Int32 or String
\* resource, a content format other than text/plain (or, for String,
\* application/json), or none, is answered 415 with no decoder run and
\* nothing published; an acceptable one is never answered 415 and the
\* payload goes to the decoder of the resource's type.
C6_ContentFormatPerType ==
  (RoutedPost /\ request.has_data /\ Route.resource_ptr.type \in ClaimedKinds) =>
    IF Acceptable(Route.resource_ptr.type, request.cf_opt)
    THEN /\ response.code \in {204, 400}
         /\ response.decoder = DecoderOf(Route.resource_ptr.type)
    ELSE /\ response.code = 415
         /\ response.decoder = "none"
         /\ response.posts = <<>>

\* C6 witness: application/json on a Float64 resource is answered 415.
C6_Witness ==
  /\ RoutedPost
  /\ Route.resource_ptr.type = Edgex_Float64
  /\ request.cf_opt = COAP_MEDIATYPE_APPLICATION_JSON
  /\ request.data = <<"2", "3", ".", "5">>
  /\ response.code = 415

\* C7: a routed POST with an acceptable content format whose payload the
\* decoder rejects, or that has no payload, is answered 400 with the body
\* "payload not valid" and nothing is published; no response with another
\* code has a body.
C7_BadPayloadBadRequest ==
  /\ (RoutedPost /\ Acceptable(Route.resource_ptr.type, request.cf_opt)
        /\ (~request.has_data
              \/ ReadData(Route.resource_ptr.type, request.data, libc_einval) = NullData)) =>
       /\ response.code = 400
       /\ response.body = "payload not valid"
       /\ response.posts = <<>>
  /\ (HandlerReturned /\ response.code # 400) => response.body = NoBody

\* C7 witness: "23.5x" on a Float64 resource with text/plain is answered 400
\* with the body.
C7_Witness ==
  /\ RoutedPost
  /\ Route.resource_ptr.type = Edgex_Float64
  /\ request.cf_opt = COAP_MEDIATYPE_TEXT_PLAIN
  /\ request.data = <<"2", "3", ".", "5", "x">>
  /\ response.code = 400
  /\ response.body = "payload not valid"

\* C8 as claimed: a POST routed to a resource whose type is not Float64,
\* Int32 or String is answered 500 whatever its content format and payload,
\* and nothing is published.
C8_UnsupportedKindAlways500 ==
  (RoutedPost /\ Route.resource_ptr.type \notin ClaimedKinds) =>
    /\ response.code = 500
    /\ response.posts = <<>>

\* C8 as amended: such a POST is answered 500 when it has a payload, whatever
\* the payload bytes and content format, and 400 with "payload not valid"
\* when it has none; it is never answered 204 and nothing is published.
C8_UnsupportedKind ==
  (RoutedPost /\ Route.resource_ptr.type \notin ClaimedKinds) =>
    /\ request.has_data => response.code = 500 /\ response.body = NoBody
    /\ ~request.has_data => response.code = 400 /\ response.body = "payload not valid"
    /\ response.decoder = "none"
    /\ response.posts = <<>>

\* C8 witness: a Bool resource, text/plain and a payload that a numeric
\* decoder would accept, answered 500.
C8_Witness ==
  /\ RoutedPost
  /\ Route.resource_ptr.type = Edgex_Bool
  /\ request.cf_opt = COAP_MEDIATYPE_TEXT_PLAIN
  /\ request.data = <<"4", "2">>
  /\ response.code = 500

FatalStartupFailures == {"mode", "key", "resolve", "context", "endpoint"}

\* C9 as claimed: a process whose startup failed fatally exits with a
\* non-zero status, and a process that went on to start the server exits
\* with status 0 only if the readiness loop was entered.
C9_FailedStartupExitsNonZero ==
  pc = "exited" =>
    /\ fail \in FatalStartupFailures => exit_status # 0
    /\ (exit_status = 0 /\ args = "none") => ran

\* The server is in the Running state: the main thread is in the readiness loop.
Running == pc \in {"loop_check", "io_call", "io_wait", "in_handler", "io_return"}

Stopped == lib = "cleaned"

\* C10 as claimed: once a signal has been taken while the server is Running,
\* the loop ends and the teardown runs, whether or not a request arrives.
C10_SignalLeadsToStopped == (Running /\ quit = 1) ~> Stopped

\* coap_init returned true: only that path sets the bind address (line 561).
ConfigLoaded == driver.coap_bind_addr # "NULL"

\* run_server has been called.
ServerStarted == lib # "down"

\* The configuration names no security mode the driver knows, or names PSK
\* with no key text.
ConfigRejectable ==
  \/ config.SecurityMode \notin {"NoSec", "PSK"}
  \/ config.SecurityMode = "PSK" /\ config.PskKey = <<>>

EndpointBound == endpoint # NoEndpoint

\* C12: a bound endpoint is DTLS on port 5684 exactly when the configured
\* security mode is PSK and UDP on port 5683 exactly when it is NoSec; when
\* the endpoint is bound the context holds the pre-shared key if and only if
\* the mode is PSK, and no key is ever installed outside PSK mode.
C12_TransportMatchesMode ==
  /\ EndpointBound =>
       /\ (endpoint = [proto |-> COAP_PROTO_DTLS, port |-> "5684"])
            <=> (config.SecurityMode = "PSK")
       /\ (endpoint = [proto |-> COAP_PROTO_UDP, port |-> "5683"])
            <=> (config.SecurityMode = "NoSec")
       /\ (~ctx_psk.null) <=> (config.SecurityMode = "PSK")
       /\ config.SecurityMode = "PSK" => ctx_psk = driver.psk_key
  /\ config.SecurityMode # "PSK" => ctx_psk.null

\* A DTLS endpoint is bound in PSK mode with the key installed.
C12_Witness ==
  /\ EndpointBound
  /\ config.SecurityMode = "PSK"
  /\ endpoint.proto = COAP_PROTO_DTLS
  /\ ctx_psk.bytes = <<77>>

\* The '/'-separated segments of a path text, empty ones included.
FirstSlash(s) == CHOOSE i \in 1..Len(s) : s[i] = "/" /\ \A j \in 1..(i - 1) : s[j] # "/"

RECURSIVE SplitAll(_)
SplitAll(s) ==
  IF \A i \in 1..Len(s) : s[i] # "/" THEN <<s>>
  ELSE <<Take(s, FirstSlash(s) - 1)>> \o SplitAll(Drop(s, FirstSlash(s)))

ThreeNonEmptySegments(path) ==
  /\ Len(SplitAll(path)) = 3
  /\ \A i \in 1..3 : SplitAll(path)[i] # <<>>
  /\ SplitAll(path)[1] = RESOURCE_SEG1

\* C13: parse_path succeeds only for a path of exactly three non-empty
\* '/'-separated segments whose first is the fixed tag; a path with fewer or
\* more segments, or with an empty segment, is reported as a routing failure.
C13_OnlyThreeNonEmptySegments ==
  (HandlerReturned /\ request.code = COAP_REQUEST_POST) =>
    /\ Route.res => ThreeNonEmptySegments(request.path)
    /\ ~ThreeNonEmptySegments(request.path) => response.code = 404

\* Some profile of the device's chain has a resource named seg.
ChainHasResource(device, seg) ==
  \E j \in 1..Len(Devices[device].profile) :
    \E k \in 1..Len(Devices[device].profile[j]) :
      Devices[device].profile[j][k].name = seg

\* The request path names the fixed tag and a registered device, then one
\* more segment.
NamesDevice ==
  /\ Len(PathSegs) = 3
  /\ PathSegs[1] = RESOURCE_SEG1
  /\ edgex_get_device_byname(PathSegs[2]) # NoDevice

\* C14: when any profile of the routed device's chain has a resource named as
\* segment 3, parse_path succeeds and returns a resource of that name,
\* whatever the profile's position in the chain; it reports
\* resource-not-found only when no profile of the chain has such a resource.
C14_AnyProfileInChain ==
  (HandlerReturned /\ request.code = COAP_REQUEST_POST /\ NamesDevice) =>
    /\ ChainHasResource(edgex_get_device_byname(PathSegs[2]), PathSegs[3])
         => Route.res /\ Route.resource_ptr.name = PathSegs[3] /\ response.code # 404
    /\ ~ChainHasResource(edgex_get_device_byname(PathSegs[2]), PathSegs[3])
         => ~Route.res /\ response.code = 404

\* C15 as claimed: a routed POST without payload is answered 415 when its
\* content format is missing or not acceptable for the resource's kind, and
\* 400 only when the content format is acceptable.
C15_AbsenceAfterContentFormat ==
  (RoutedPost /\ ~request.has_data /\ Route.resource_ptr.type \in ClaimedKinds) =>
    IF Acceptable(Route.resource_ptr.type, request.cf_opt)
    THEN response.code = 400
    ELSE response.code = 415

\* C15 as amended: payload absence is detected before the content format is
\* read: a routed POST without payload is answered 400 with the body
\* "payload not valid" whatever its content format and the resource's kind,
\* with no decoder run and nothing published; 415 is answered only to
\* requests that have a payload.
C15_AbsenceBeforeContentFormat ==
  /\ (RoutedPost /\ ~request.has_data) =>
       /\ response.code = 400
       /\ response.body = "payload not valid"
       /\ ~response.cf_read
       /\ response.decoder = "none"
       /\ response.posts = <<>>
  /\ (RoutedPost /\ response.code = 415) =>
       request.has_data /\ ~Acceptable(Route.resource_ptr.type, request.cf_opt)

\* C15 witness: no payload and an unacceptable content format on a Float64
\* resource, answered 400.
C15_Witness ==
  /\ RoutedPost
  /\ ~request.has_data
  /\ Route.resource_ptr.type = Edgex_Float64
  /\ request.cf_opt = COAP_MEDIATYPE_APPLICATION_LINK_FORMAT
  /\ response.code = 400
  /\ response.body = "payload not valid"

\* Where the parse of the buffer stops: the offset of endptr.
ParseStop(type, data) ==
  IF type = Edgex_Int32 THEN strtol(CStr(data \o <<NUL>>)).end
  ELSE strtod(CStr(data \o <<NUL>>)).end

\* C16: the Int32 and Float64 decoders return a value only when the parse
\* consumed the whole buffer of len >= 1 bytes; a buffer whose parse stops
\* before byte len, a zero byte followed by further bytes included, is a
\* decode failure.
C16_WholeBufferParsed ==
  (RoutedPost /\ request.has_data
     /\ Route.resource_ptr.type \in {Edgex_Int32, Edgex_Float64}
     /\ request.cf_opt = COAP_MEDIATYPE_TEXT_PLAIN) =>
    /\ response.code = 204 =>
         /\ Len(request.data) > 0
         /\ ParseStop(Route.resource_ptr.type, request.data) = Len(request.data)
    /\ ParseStop(Route.resource_ptr.type, request.data) < Len(request.data) =>
         response.code = 400

\* The int a decoded Int32 value stands for, accumulated on the negative side
\* so that INT32_MIN is not negated.
RECURSIVE NegValue(_, _)
NegValue(digits, acc) ==
  IF digits = <<>> THEN acc
  ELSE NegValue(Tail(digits), acc * 10 - DigitVal(Head(digits)))

IntOf(value) ==
  IF value.neg THEN NegValue(value.digits, 0) ELSE 0 - NegValue(value.digits, 0)

DecodedInt32 == pc = "decoded" /\ response.decoder = "read_data_int32"

\* C17: the Int32 decoder applied to the decimal rendering of an integer of
\* the int32 range returns exactly that integer, and applied to the rendering
\* of an integer outside the range, of at most 11 bytes, it fails.
C17_Int32RoundTrip ==
  DecodedInt32 =>
    /\ \A v \in IntInputs :
         request.data = Render(v) =>
           /\ response.posts[1].value.kind = "i32"
           /\ IntOf(response.posts[1].value) = v
    /\ request.data \in WideInputs => response.posts[1].value = NullData

\* C17 witness: "-2147483648" has been decoded to INT32_MIN.
C17_Witness ==
  /\ DecodedInt32
  /\ request.data = <<"-", "2", "1", "4", "7", "4", "8", "3", "6", "4", "8">>
  /\ request.data = Render(INT32_MIN)
  /\ response.posts[1].value.kind = "i32"
  /\ IntOf(response.posts[1].value) = INT32_MIN

\* C18: the String decoder accepts every buffer and returns a copy of exactly
\* its len bytes (followed by the terminator); when its allocation fails the
\* handler still answers a status code and releases the device handle, and
\* the process and the readiness loop keep running.
C18_StringDecoderNeverFatal ==
  /\ (RoutedPost /\ request.has_data /\ Route.resource_ptr.type = Edgex_String
        /\ Acceptable(Edgex_String, request.cf_opt)) =>
       /\ response.code = 204
       /\ response.posts[1].value.kind = "string"
       /\ response.posts[1].value.buf = request.data \o <<NUL>>
  /\ fail = "malloc" =>
       /\ pc # "exited"
       /\ response.code # 0
       /\ held = 0

\* resolve_address resolved the bind address.
Resolved == bind_addr # NoAddr

StartupFailures == {"resolve", "context", "psk", "endpoint"}

\* Where the main thread is once run_server has gone to finish.
TeardownPcs == {"free_context", "cleanup", "service_stop", "exited"}

\* run_server is past its call of resolve_address.
PastResolve ==
  lib # "down" /\ pc \notin {"run_server", "resolve"}

\* C19: run_server resolves the bind address, creates the context, installs
\* the key (PSK mode only), binds the endpoint, registers the handler and
\* enters the loop in that order, each step only after every earlier one
\* succeeded; after a failed step, any address-resolution error included, no
\* later step runs, none is tried again, the loop is not entered and the
\* result is EXIT_FAILURE.
C19_StartupOrder ==
  /\ ctx # "NULL" => Resolved
  /\ ~ctx_psk.null => ctx # "NULL" /\ driver.security_mode = SECURITY_MODE_PSK
  /\ EndpointBound =>
       /\ ctx # "NULL"
       /\ driver.security_mode = SECURITY_MODE_PSK => ~ctx_psk.null
  /\ handlers # {} => EndpointBound
  /\ ran => handlers # {}
  /\ Running => ran /\ fail = "none"
  /\ (PastResolve /\ ~Resolved) => fail = "resolve"
  /\ fail \in StartupFailures =>
       /\ pc \in TeardownPcs
       /\ ~ran /\ handlers = {} /\ ~EndpointBound
       /\ result = EXIT_FAILURE
       /\ fail = "resolve" => ~Resolved /\ ctx = "NULL" /\ ctx_psk.null
       /\ fail = "context" => ctx = "NULL" /\ ctx_psk.null
       /\ fail = "psk" => ctx_psk.null

\* C19 witness: the name lookup failed and run_server has returned failure
\* without creating a context.
C19_Witness ==
  /\ pc = "service_stop"
  /\ fail = "resolve"
  /\ ~Resolved
  /\ ctx = "NULL"
  /\ ~ran
  /\ result = EXIT_FAILURE

\* C20: when run_server returns, after a failed startup step or after the
\* loop, the context (if one was created) has been released and then the
\* library state, each once; neither is released while the loop runs or a
\* dispatch is in progress.
C20_TeardownOrder ==
  /\ pc = "service_stop" =>
       /\ lib = "cleaned"
       /\ ctx \in {"NULL", "freed"}
       /\ ctx = "NULL" => fail \in {"resolve", "context"}
  /\ lib \in {"cleaned", "cleaned_twice"} => ctx \in {"NULL", "freed"}
  /\ ctx # "freed_twice" /\ lib # "cleaned_twice"
  /\ (ctx = "freed" \/ lib = "cleaned") => pc \in {"cleanup", "service_stop", "exited"}
  /\ (Running \/ pc = "in_handler") => ctx = "live" /\ lib = "up"

\* C20 witness: the endpoint could not be bound and run_server has returned
\* with the context and the library state released.
C20_Witness ==
  /\ pc = "service_stop"
  /\ fail = "endpoint"
  /\ ctx = "freed"
  /\ lib = "cleaned"

\* The loop has read the stop flag as set: only then is result assigned
\* EXIT_SUCCESS (line 463).
LoopSawStop == result = EXIT_SUCCESS

\* run_server is in its teardown after the loop ran.
TeardownAfterLoop == ran /\ pc \in {"free_context", "cleanup", "service_stop"}

DispatchInProgress == pc \in {"in_handler", "io_return"}

\* C21: a stop signal does not abort a dispatch: while a handler invocation
\* is running or has just returned, with the stop flag set or not, no
\* teardown has started; an invocation that returns with the flag set has
\* answered a status code and released its device handle; teardown starts
\* with no request in hand and no handle held; and once the loop has read
\* the flag as set the thread is in teardown, with no wait or dispatch.
C21_StopNeverAbortsDispatch ==
  /\ DispatchInProgress =>
       /\ ctx = "live" /\ lib = "up"
       /\ ~LoopSawStop
       /\ request # NoRequest
  /\ (pc = "io_return" /\ quit = 1 /\ request.code \in handlers) =>
       /\ response.code \in {204, 400, 404, 405, 415, 500}
       /\ held = 0
  /\ TeardownAfterLoop =>
       /\ request = NoRequest /\ response = NoResponse
       /\ held = 0
       /\ LoopSawStop
  /\ LoopSawStop => quit = 1 /\ pc \in TeardownPcs

\* C21 witness: the stop flag is set and the dispatch in hand has run to its
\* status code, publish and handle release, with no teardown started.
C21_Witness ==
  /\ pc = "io_return"
  /\ quit = 1
  /\ response.code = 204
  /\ Len(response.posts) = 1
  /\ response.frees = <<response.acquired>>
  /\ held = 0
  /\ ctx = "live"

\* Everything a step of the signal handler leaves alone: the whole state
\* but the flag itself and the kernel's interruption of the blocked wait.
SignalFrame ==
  UNCHANGED <<pc, args, config, libc_einval, driver, bind_addr, sig_installed, lib, ctx,
              ctx_psk, endpoint, handlers, result, ran, fail, exit_status, request,
              response, nhandled, nposted, held, alive>>

\* A step of the main thread: startup, the loop, the request handler,
\* teardown.
MainStep == pc' # pc

\* The flag changes only from 0 to 1, only with the handlers installed and
\* only in a step that changes nothing else of the program; no step of the
\* main thread changes it.
StopFlagFrame ==
  /\ quit \in {0, 1} /\ quit' \in {0, 1}
  /\ quit' # quit => quit = 0 /\ quit' = 1 /\ sig_installed /\ SignalFrame
  /\ quit = 1 => quit' = 1
  /\ MainStep => quit' = quit

\* C22 as stated: besides the frame, the flag is 0 in every state before the
\* readiness loop is entered.
C22_ZeroBeforeLoop ==
  [][/\ StopFlagFrame
     /\ ~ran => quit = 0
     /\ ~ran' => quit' = 0]_vars

\* C22: the stop flag is 0 until the signal handlers are installed; it is
\* written only by the signal handler, only from 0 to 1 and never back; the
\* signal handler changes nothing else of the program; startup, the loop,
\* the request handler and teardown never write it.
C22_StopFlagFrame ==
  [][/\ StopFlagFrame
     /\ ~sig_installed => quit = 0
     /\ ~sig_installed' => quit' = 0]_vars

\* C22 witness: the signal handler has set the flag while a request was in
\* the handler, and the server's state is that of an undisturbed dispatch.
C22_Witness ==
  /\ quit = 1
  /\ pc = "in_handler"
  /\ request # NoRequest
  /\ response = NoResponse
  /\ ctx = "live" /\ lib = "up"
  /\ result = EXIT_FAILURE
  /\ held = 0

\* C23: the handler retains nothing between requests. After each invocation
\* returns no device handle is held and no decoded value is alive, every
\* value the decoder allocated having been released once; an invocation
\* raises the publish count by one if it answers 204 and leaves it alone
\* otherwise, so N successful pushes make N publishes; and the response is
\* the one data_handler computes from the request in hand alone, whatever
\* was handled or published before.
C23_NoStateBetweenRequests ==
  [][/\ (pc = "io_return" /\ request.code \in handlers) =>
          /\ held = 0 /\ alive = 0
          /\ response.allocated \in {0, 1}
          /\ response.allocated = 1 <=> response.code = 204
     /\ (pc = "in_handler" /\ pc' = "io_return") =>
          /\ held = 0 /\ alive = 0
          /\ held' = 0 /\ alive' = 0
          /\ nposted' = nposted + (IF response'.code = 204 THEN 1 ELSE 0)
          /\ response'.code = 204 => Len(response'.posts) = 1
          /\ response' = data_handler(request, libc_einval)
     /\ pc = "io_wait" => held = 0 /\ alive = 0 /\ response = NoResponse
     /\ nposted <= nhandled]_vars

\* C23 witness: the second of two successful pushes has returned, with two
\* publishes made, no handle held and no value alive.
C23_Witness ==
  /\ pc = "io_return"
  /\ nhandled = 2
  /\ nposted = 2
  /\ response.code = 204
  /\ response.allocated = 1
  /\ Len(response.data_frees) = 1
  /\ held = 0
  /\ alive = 0

\* C24: a buffer longer than 24 bytes (Float64 decoder) or 11 bytes (Int32
\* decoder) is refused with no byte of it read and none copied; for every
\* accepted length the internal buffer has one byte more than the limit, the
\* offsets written, the terminator at the declared length among them, are
\* offsets of that buffer, and the offsets read from the input are below the
\* declared length.
C24_LengthGuard ==
  (pc = "decoded" /\ response.decoder \in {"read_data_int32", "read_data_float64"}) =>
    LET len   == Len(request.data)
        limit == IF response.decoder = "read_data_int32" THEN 11 ELSE 24
        copy  == response.copy
    IN  /\ len > limit =>
             /\ response.posts[1].value.kind = "null"
             /\ copy.writes = {} /\ copy.reads = {}
        /\ len <= limit =>
             /\ copy.size = limit + 1
             /\ len \in copy.writes
             /\ \A k \in copy.writes : 0 <= k /\ k < copy.size
             /\ \A k \in copy.reads : 0 <= k /\ k < len
             /\ \A k \in 0..(len - 1) : k \in copy.writes /\ k \in copy.reads

\* C24 witness: the Int32 decoder has refused a 12-byte buffer of digits,
\* whose value is 7, without reading or copying a byte.
C24_Witness ==
  /\ pc = "decoded"
  /\ response.decoder = "read_data_int32"
  /\ Len(request.data) = 12
  /\ request.data[12] = "7"
  /\ response.posts[1].value.kind = "null"
  /\ response.copy.writes = {}
  /\ response.copy.reads = {}
====
